---- MODULE Spec2Model ----
(***************************************************************************)
(* Model of ukagaka-dll-macro: the plugin boundary functions load, loadu,  *)
(* request, unload and DllMain, the two process-wide OnceLock registries   *)
(* (DLL_PATH, LOADU_RESULT), the HGLOBAL buffer bridge and the text        *)
(* decoders.                                                               *)
(*                                                                         *)
(* src/src/lib.rs is the single-entry crate root: it declares its own      *)
(* DLL_PATH (lib.rs:60), registers it in DllMain and defines load, request *)
(* and unload; it has no loadu and never touches LOADU_RESULT.             *)
(* src/src/dll_util.rs is the utility module of the negotiating crate:     *)
(* register_dll_path, read_loadu_result, register_loadu_result,            *)
(* decode_from_oem_codepage and global_free are called by a define_load    *)
(* (dll_util.rs:24,33,42,51) whose macro text is not among the sources.    *)
(* That define_load (load and loadu of the negotiating crate) is modelled  *)
(* from the specification, composing the operators modelled from           *)
(* dll_util.rs.  A process hosts one build of the plugin: the variable     *)
(* build records which crate it was built from and which macro arms it     *)
(* expands.                                                                *)
(***************************************************************************)
EXTENDS Integers, Sequences, FiniteSets, TLC

(***************************************************************************)
(* Bounds of the model.                                                    *)
(***************************************************************************)
\* number of addresses GlobalAlloc can hand out
NumAddr == 2
\* longest host buffer, in bytes
MaxLen == 1
\* longest response of the request callback, in bytes
MaxResp == 1
\* longest sequence of boundary calls in one process
MaxCalls == 3
\* longest block handled when the bridge functions are called on their own
MaxData == 2
\* number of bridge function calls in one run of the bridge on its own
MaxBridgeCalls == 2

(***************************************************************************)
(* Program constants.                                                      *)
(***************************************************************************)
\* winapi::shared::minwindef::{TRUE, FALSE}
BOOL_TRUE == 1
BOOL_FALSE == 0
\* winapi::um::winnt::DLL_* reasons
DLL_PROCESS_DETACH == 0
DLL_PROCESS_ATTACH == 1
DLL_THREAD_ATTACH == 2
DLL_THREAD_DETACH == 3

Addr == 1..NumAddr

\* Byte values the host sends: 'A', a UTF-8 continuation byte (half-width
\* katakana in codepage 932), a UTF-8 two-byte lead (half-width katakana in
\* codepage 932), and a byte invalid in both encodings.
Byte == {65, 169, 195, 255}
\* i8 values a request callback returns: -1 is the byte 0xFF, 0 is NUL
I8 == {-1, 0}

RECURSIVE SeqsUpTo(_, _)
SeqsUpTo(S, n) ==
    IF n = 0 THEN {<<>>}
    ELSE LET shorter == SeqsUpTo(S, n - 1)
         IN  shorter \cup {Append(s, x) : s \in {t \in shorter : Len(t) = n - 1}, x \in S}

HostBytes == SeqsUpTo(Byte, MaxLen)
Responses == SeqsUpTo(I8, MaxResp)

\* Option<T>: None is <<>>, Some(v) is <<v>>.  Result<T, E> as seen by the
\* callers here (only Ok/Err matters): Err is <<>>, Ok(v) is <<v>>.
None == <<>>
Some(v) == <<v>>

VARIABLES
    build,          \* which crate and macro arms the plugin was built from
    oemcp,          \* the system's OEM codepage (GetOEMCP)
    DLL_PATH,       \* OnceLock<String>
    LOADU_RESULT,   \* OnceLock<BOOL>
    live,           \* addresses of the blocks currently allocated
    mem,            \* content of each block
    last,           \* the last call: its arguments, result and event log
    calls,          \* the calls made so far: how many, how many of them load
                    \* or loadu, and the first load or loadu among them
    load_calls,     \* number of times the user load callback was invoked
    path_sets,      \* the DLL_PATH.set attempts: how many, the first value,
                    \* and the last attempt <<value, reported Ok>>
    result_sets,    \* the same for LOADU_RESULT.set
    threads,        \* two threads inside OnceLock::set on one registry: the
                    \* Once state, the value slot and each thread's position
    origin          \* for blocks made by slice_i8_to_hglobal: the data copied

vars == <<build, oemcp, DLL_PATH, LOADU_RESULT, live, mem, last, calls,
          load_calls, path_sets, result_sets, origin, threads>>

(***************************************************************************)
(* The machine state threaded through one call (c): the heap, the          *)
(* registries, and the ordered log of what the call did.                   *)
(***************************************************************************)
Ctx == [live |-> live, mem |-> mem, log |-> <<>>, ub |-> FALSE, cell |-> 0,
        DLL_PATH |-> DLL_PATH, LOADU_RESULT |-> LOADU_RESULT,
        load_calls |-> load_calls,
        path_sets |-> path_sets, result_sets |-> result_sets]

Log(c, op, a) == [c EXCEPT !.log = Append(@, <<op, a>>)]

\* the host allocates a block holding bytes at address a before it calls in
HostAlloc(c, a, bytes) ==
    [c EXCEPT !.live = @ \cup {a}, !.mem[a] = bytes]

\* the host's c_long cell, passed to request and slice_i8_to_hglobal by pointer
HostCell(c, v) == [c EXCEPT !.cell = v]

(***************************************************************************)
(* Buffer bridge.                                                          *)
(***************************************************************************)
\* an i8 stored to memory and read back as u8
ToU8(x) == (x + 256) % 256

\* The allocator's choice among the addresses that are not allocated now (a
\* freed address can be handed out again): the pick-th of them, in order.
\* With none left the allocation fails and yields NULL (0).
NthFree(c, pick) ==
    LET free == Addr \ c.live
    IN  IF free = {} THEN 0
        ELSE CHOOSE a \in free :
                Cardinality({b \in free : b < a}) = pick % Cardinality(free)

\* GlobalAlloc(GMEM_FIXED, n): a block of n uninitialised bytes (256 marks a
\* byte that was never written; no byte read from memory has that value).
\* The callers here never test for NULL: writing through it is undefined.
GlobalAlloc(c, pick, n) ==
    LET a == NthFree(c, pick)
    IN  IF a = 0 THEN [ctx |-> Log([c EXCEPT !.ub = TRUE], "GlobalAlloc", 0), h |-> 0]
        ELSE [ctx |-> Log([c EXCEPT !.live = @ \cup {a},
                                    !.mem[a] = [i \in 1..n |-> 256]],
                          "GlobalAlloc", a),
              h |-> a]

\* GlobalFree(h): freeing a block that is not allocated is undefined
GlobalFree(c, h) ==
    Log([c EXCEPT !.live = @ \ {h}, !.mem[h] = <<>>,
                  !.ub = @ \/ h \notin c.live],
        "GlobalFree", h)

\* fault: the handle is never freed
global_free_leak(c, h) == c

global_free(c, h) == GlobalFree(c, h)

\* fault: data is treated as a C string and cut at its first 0
slice_i8_to_hglobal_cstr(c, data, pick) ==
    LET data_len == Cardinality({i \in 1..Len(data) :
                                    \A j \in 1..i : data[j] # 0})
        g == GlobalAlloc(c, pick, data_len)
        copied == [i \in 1..data_len |-> ToU8(data[i])]
    IN  [ctx |-> IF g.h = 0 THEN [g.ctx EXCEPT !.cell = data_len]
                 ELSE [g.ctx EXCEPT !.cell = data_len, !.mem[g.h] = copied],
         h |-> g.h]

\* fault: a terminating 0 is appended to the block and counted in the length
slice_i8_to_hglobal_nul(c, data, pick) ==
    LET data_len == Len(data) + 1
        g == GlobalAlloc(c, pick, data_len)
        copied == [i \in 1..data_len |->
                    IF i <= Len(data) THEN ToU8(data[i]) ELSE 0]
    IN  [ctx |-> IF g.h = 0 THEN [g.ctx EXCEPT !.cell = data_len]
                 ELSE [g.ctx EXCEPT !.cell = data_len, !.mem[g.h] = copied],
         h |-> g.h]

\* slice_i8_to_hglobal(h_len, data): allocate data.len() bytes, store the
\* length through h_len (the cell), copy data into the block, return the block
slice_i8_to_hglobal(c, data, pick) ==
    LET data_len == Len(data)
        g == GlobalAlloc(c, pick, data_len)
        h_slice == g.ctx.mem[g.h]
        copied == [i \in DOMAIN h_slice |-> ToU8(data[i])]
    IN  [ctx |-> IF g.h = 0 THEN [g.ctx EXCEPT !.cell = data_len]
                 ELSE [g.ctx EXCEPT !.cell = data_len, !.mem[g.h] = copied],
         h |-> g.h]

\* fault: one byte too few is copied before the 0 is pushed
hglobal_to_vec_u8_short(c, h, len) ==
    LET ok == h \in c.live /\ len <= Len(c.mem[h])
    IN  [ctx |-> Log([c EXCEPT !.ub = @ \/ ~ok], "read", h),
         vec |-> IF ok THEN SubSeq(c.mem[h], 1, len - 1) \o <<0>> ELSE <<0>>]

\* fault: no trailing 0 is pushed
hglobal_to_vec_u8_no_push(c, h, len) ==
    LET ok == h \in c.live /\ len <= Len(c.mem[h])
    IN  [ctx |-> Log([c EXCEPT !.ub = @ \/ ~ok], "read", h),
         vec |-> IF ok THEN SubSeq(c.mem[h], 1, len) ELSE <<>>]

\* hglobal_to_vec_u8(h, len): the first len bytes of the block, then push(0).
\* Reading a block that is not allocated, or past its end, is undefined.
hglobal_to_vec_u8(c, h, len) ==
    LET ok == h \in c.live /\ len <= Len(c.mem[h])
    IN  [ctx |-> Log([c EXCEPT !.ub = @ \/ ~ok], "read", h),
         vec |-> IF ok THEN Append(SubSeq(c.mem[h], 1, len), 0) ELSE <<0>>]

(***************************************************************************)
(* Registries.                                                             *)
(***************************************************************************)
\* fault: a later set overwrites the stored value
OnceLock_set_overwrite(cell, v) == [cell |-> Some(v), ok |-> TRUE]

\* OnceLock::set: stores only into an empty cell, else returns Err(value)
OnceLock_set(cell, v) ==
    IF cell = None THEN [cell |-> Some(v), ok |-> TRUE]
    ELSE [cell |-> cell, ok |-> FALSE]

\* OnceLock::set under concurrency.  The cell is a Once (INCOMPLETE, RUNNING,
\* COMPLETE) and a value slot: set first looks whether the cell is complete,
\* then enters call_once_force, where one thread moves the Once from
\* INCOMPLETE to RUNNING, writes the slot and completes it, while a thread
\* that finds it RUNNING waits for the completion; get reads the slot only
\* of a complete cell.
Threads == {1, 2}

NoThreads == [reg |-> "none", state |-> "INCOMPLETE", slot |-> None,
              won |-> {}, seen |-> None,
              pc |-> [t \in Threads |-> "idle"],
              v |-> [t \in Threads |-> None],
              ok |-> [t \in Threads |-> FALSE],
              got |-> [t \in Threads |-> None]]

\* fault: a thread that finds the Once RUNNING runs the initialiser too
Once_call_racy(state) ==
    [state |-> IF state = "COMPLETE" THEN state ELSE "RUNNING",
     run |-> state # "COMPLETE", wait |-> FALSE]

\* Once::call_once_force: the compare-and-swap that admits one initialiser
Once_call(state) ==
    [state |-> IF state = "INCOMPLETE" THEN "RUNNING" ELSE state,
     run |-> state = "INCOMPLETE", wait |-> state = "RUNNING"]

\* OnceLock::get: Some(value) of a complete cell, else None
OnceLock_get(state, slot) == IF state = "COMPLETE" THEN slot ELSE None

\* one more set attempt on a registry, with the Ok/Err it reported
NoSets == [n |-> 0, first |-> None, last |-> None]
Attempt(sets, v, ok) ==
    [n |-> sets.n + 1,
     first |-> IF sets.n = 0 THEN Some(v) ELSE sets.first,
     last |-> Some(<<v, ok>>)]

\* fault: a failed set is reported as Ok
register_dll_path_silent(c, path) ==
    LET r == OnceLock_set(c.DLL_PATH, path)
    IN  [ctx |-> Log([c EXCEPT !.DLL_PATH = r.cell,
                               !.path_sets = Attempt(@, path, r.ok)],
                     "register_dll_path", 0),
         ok |-> TRUE]

\* fault: the path is overwritten and Ok is returned on every call
register_dll_path_overwrite(c, path) ==
    [ctx |-> Log([c EXCEPT !.DLL_PATH = Some(path),
                           !.path_sets = Attempt(@, path, TRUE)],
                 "register_dll_path", 0),
     ok |-> TRUE]

register_dll_path(c, path) ==
    LET r == OnceLock_set(c.DLL_PATH, path)
    IN  [ctx |-> Log([c EXCEPT !.DLL_PATH = r.cell,
                               !.path_sets = Attempt(@, path, r.ok)],
                     "register_dll_path", 0),
         ok |-> r.ok]

\* fault: a set on an already set cache replaces the value and reports Ok
register_loadu_result_overwrite(c, result) ==
    [ctx |-> Log([c EXCEPT !.LOADU_RESULT = Some(result),
                           !.result_sets = Attempt(@, result, TRUE)],
                 "register_loadu_result", 0),
     ok |-> TRUE]

\* fault: only a TRUE result is stored
register_loadu_result_true_only(c, result) ==
    LET r == IF result = BOOL_TRUE THEN OnceLock_set(c.LOADU_RESULT, result)
             ELSE [cell |-> c.LOADU_RESULT, ok |-> TRUE]
    IN  [ctx |-> Log([c EXCEPT !.LOADU_RESULT = r.cell,
                               !.result_sets = Attempt(@, result, r.ok)],
                     "register_loadu_result", 0),
         ok |-> r.ok]

register_loadu_result(c, result) ==
    LET r == OnceLock_set(c.LOADU_RESULT, result)
    IN  [ctx |-> Log([c EXCEPT !.LOADU_RESULT = r.cell,
                               !.result_sets = Attempt(@, result, r.ok)],
                     "register_loadu_result", 0),
         ok |-> r.ok]

\* fault: the cached result is never seen
read_loadu_result_none(c) == None

read_loadu_result(c) == c.LOADU_RESULT

read_dll_path_string(c) == c.DLL_PATH

(***************************************************************************)
(* Text decoders.  A decoded String is the sequence of its code points.    *)
(***************************************************************************)
Utf8Width(x) ==
    IF x < 128 THEN 1
    ELSE IF x \in 194..223 THEN 2
    ELSE IF x \in 224..239 THEN 3
    ELSE IF x \in 240..244 THEN 4
    ELSE 0

Utf8SecondOk(x, y) ==
    CASE x = 224 -> y \in 160..191
      [] x = 237 -> y \in 128..159
      [] x = 240 -> y \in 144..191
      [] x = 244 -> y \in 128..143
      [] OTHER   -> y \in 128..191

Utf8Scalar(b, w) ==
    CASE w = 1 -> b[1]
      [] w = 2 -> (b[1] - 192) * 64 + (b[2] - 128)
      [] w = 3 -> (b[1] - 224) * 4096 + (b[2] - 128) * 64 + (b[3] - 128)
      [] OTHER -> (b[1] - 240) * 262144 + (b[2] - 128) * 4096
                  + (b[3] - 128) * 64 + (b[4] - 128)

\* String::from_utf8: strict, any invalid sequence fails the whole input
RECURSIVE from_utf8(_)
from_utf8(b) ==
    IF b = <<>> THEN Some(<<>>)
    ELSE LET w == Utf8Width(b[1])
         IN  IF w = 0 \/ Len(b) < w THEN None
             ELSE IF w >= 2 /\ ~Utf8SecondOk(b[1], b[2]) THEN None
             ELSE IF \E i \in 3..w : b[i] \notin 128..191 THEN None
             ELSE LET rest == from_utf8(SubSeq(b, w + 1, Len(b)))
                  IN  IF rest = None THEN None
                      ELSE Some(<<Utf8Scalar(b, w)>> \o rest[1])

\* encoding_from_windows_code_page: the codepages the encoding crate knows
\* (932 and 65001 among them); 437, the OEM codepage of an en-US system, is
\* not one of them
encoding_from_windows_code_page(cp) ==
    CASE cp = 932   -> Some("windows-31j")
      [] cp = 65001 -> Some("utf-8")
      [] OTHER      -> None

\* windows-31j, DecoderTrap::Strict: one byte for 0x00..0x80 and for the
\* half-width katakana 0xA1..0xDF; a lead byte 0x81..0x9F / 0xE0..0xFC needs
\* a trail byte (the JIS X 0208 table is not modelled: the pair stands for
\* its character, and the model's bytes contain no lead byte); any other
\* byte fails the whole input
RECURSIVE decode_windows_31j(_)
decode_windows_31j(b) ==
    IF b = <<>> THEN Some(<<>>)
    ELSE LET x == b[1]
             lead == x \in 129..159 \/ x \in 224..252
             w == IF lead THEN 2 ELSE 1
             ch == IF x <= 128 THEN x
                   ELSE IF x \in 161..223 THEN 65377 + (x - 161)
                   ELSE 65536 + x * 256 + b[2]
         IN  IF ~(x <= 128 \/ x \in 161..223 \/ lead) THEN None
             ELSE IF lead /\ Len(b) < 2 THEN None
             ELSE IF lead /\ ~(b[2] \in 64..126 \/ b[2] \in 128..252) THEN None
             ELSE LET rest == decode_windows_31j(SubSeq(b, w + 1, Len(b)))
                  IN  IF rest = None THEN None
                      ELSE Some(<<ch>> \o rest[1])

\* encoding.decode(bytes, DecoderTrap::Strict)
decode(encoding, bytes) ==
    IF encoding = "utf-8" THEN from_utf8(bytes) ELSE decode_windows_31j(bytes)

\* fault: what does not decode becomes U+FFFD instead of an error
decode_from_oem_codepage_lossy(oem_codepage, bytes) ==
    LET encoding == encoding_from_windows_code_page(oem_codepage)
    IN  IF encoding = None \/ decode(encoding[1], bytes) = None
        THEN Some(<<65533>>)
        ELSE decode(encoding[1], bytes)

\* decode_from_oem_codepage: Err(FALSE) for an unsupported codepage and for
\* bytes the codepage's strict decoder rejects
decode_from_oem_codepage(oem_codepage, bytes) ==
    LET encoding == encoding_from_windows_code_page(oem_codepage)
    IN  IF encoding = None THEN None
        ELSE decode(encoding[1], bytes)

(***************************************************************************)
(* Entry points of the single-entry crate (lib.rs).                        *)
(***************************************************************************)
\* the user's $load_process runs; what it returns is the caller's input
load_process(c) ==
    Log([c EXCEPT !.load_calls = @ + 1], "load_process", 0)

\* define_load!(): load frees the handle and returns TRUE
load_default(c, h) ==
    [ctx |-> GlobalFree(c, h), ret |-> BOOL_TRUE, vec |-> <<>>]

\* fault: load stores the callback's result in LOADU_RESULT
load_caching(c, h, cb) ==
    LET c1 == load_process(GlobalFree(c, h))
        result == IF cb THEN BOOL_TRUE ELSE BOOL_FALSE
    IN  [ctx |-> register_loadu_result(c1, result).ctx, ret |-> result,
         vec |-> <<>>]

\* define_load!($load_process): load frees the handle, then maps the
\* callback's bool to BOOL
load(c, h, cb) ==
    LET c1 == GlobalFree(c, h)
        c2 == load_process(c1)
    IN  [ctx |-> c2, ret |-> IF cb THEN BOOL_TRUE ELSE BOOL_FALSE, vec |-> <<>>]

\* fault: the handle is freed only after the callback has run
request_free_late(c, h, resp, pick) ==
    LET s == hglobal_to_vec_u8(c, h, c.cell)
        c1 == Log(s.ctx, "request_process", 0)
        c2 == GlobalFree(c1, h)
        out == slice_i8_to_hglobal(c2, resp, pick)
    IN  [ctx |-> out.ctx, ret |-> out.h, vec |-> s.vec]

\* fault: the response is cut at its first 0
request_cstr(c, h, resp, pick) ==
    LET s == hglobal_to_vec_u8(c, h, c.cell)
        c1 == GlobalFree(s.ctx, h)
        c2 == Log(c1, "request_process", 0)
        out == slice_i8_to_hglobal_cstr(c2, resp, pick)
    IN  [ctx |-> out.ctx, ret |-> out.h, vec |-> s.vec]

\* define_request!($request_process): copy *len bytes, free the handle, run
\* the callback on the copy, hand its bytes back in a new block
request(c, h, resp, pick) ==
    LET s == hglobal_to_vec_u8(c, h, c.cell)
        c1 == GlobalFree(s.ctx, h)
        c2 == Log(c1, "request_process", 0)
        out == slice_i8_to_hglobal(c2, resp, pick)
    IN  [ctx |-> out.ctx, ret |-> out.h, vec |-> s.vec]

\* define_unload!(): always TRUE
unload_default(c) ==
    [ctx |-> c, ret |-> BOOL_TRUE, vec |-> <<>>]

\* fault: the callback's result is ignored
unload_ignore(c, cb) ==
    [ctx |-> Log(c, "unload_process", 0), ret |-> BOOL_TRUE, vec |-> <<>>]

\* define_unload!($unload_process)
unload(c, cb) ==
    [ctx |-> Log(c, "unload_process", 0),
     ret |-> IF cb THEN BOOL_TRUE ELSE BOOL_FALSE, vec |-> <<>>]

\* String::from_utf16_lossy: a surrogate pair is one character, a lone
\* surrogate becomes U+FFFD
RECURSIVE from_utf16_lossy(_)
from_utf16_lossy(u) ==
    IF u = <<>> THEN <<>>
    ELSE IF u[1] \in 55296..56319 /\ Len(u) >= 2 /\ u[2] \in 56320..57343
         THEN <<65536 + (u[1] - 55296) * 1024 + (u[2] - 56320)>>
              \o from_utf16_lossy(SubSeq(u, 3, Len(u)))
    ELSE IF u[1] \in 55296..57343
         THEN <<65533>> \o from_utf16_lossy(Tail(u))
    ELSE <<u[1]>> \o from_utf16_lossy(Tail(u))

\* fault: the path is stored on every call
register_dll_path_string_overwrite(c, file_name) ==
    LET buf == file_name \o <<0>>
        p == Cardinality({i \in 1..Len(buf) : \A j \in 1..i : buf[j] # 0})
        path == from_utf16_lossy(SubSeq(buf, 1, p))
    IN  Log([c EXCEPT !.DLL_PATH = Some(path),
                      !.path_sets = Attempt(@, path, TRUE)],
            "register_dll_path_string", 0)

\* register_dll_path_string: file_name is what GetModuleFileNameW wrote to
\* the zeroed buffer (nothing when it fails); the path is the units before
\* the first 0; the result of DLL_PATH.set is discarded
register_dll_path_string(c, file_name) ==
    LET buf == file_name \o <<0>>
        p == Cardinality({i \in 1..Len(buf) : \A j \in 1..i : buf[j] # 0})
        path == from_utf16_lossy(SubSeq(buf, 1, p))
        r == OnceLock_set(c.DLL_PATH, path)
    IN  Log([c EXCEPT !.DLL_PATH = r.cell,
                      !.path_sets = Attempt(@, path, r.ok)],
            "register_dll_path_string", 0)

\* fault: the path is registered whatever the reason
DllMain_every_reason(c, ul_reason_for_call, file_name) ==
    [ctx |-> register_dll_path_string(c, file_name),
     ret |-> BOOL_TRUE, vec |-> <<>>]

\* define_dll_main!(): only DLL_PROCESS_ATTACH registers the path; every
\* reason returns TRUE
DllMain(c, ul_reason_for_call, file_name) ==
    [ctx |-> IF ul_reason_for_call = DLL_PROCESS_ATTACH
             THEN register_dll_path_string(c, file_name)
             ELSE c,
     ret |-> BOOL_TRUE, vec |-> <<>>]

(***************************************************************************)
(* Entry points of the negotiating crate: define_load's load and loadu.    *)
(***************************************************************************)
\* the path bytes of an owned buffer: what the host supplied, without the
\* terminator hglobal_to_vec_u8 appended
PathBytes(vec) == SubSeq(vec, 1, Len(vec) - 1)

\* legacy load: copy, free, cached loadu outcome if any, else decode in the
\* OEM codepage, register the path, run the callback
load_legacy(c, h, len, cb, oem_codepage) ==
    LET v == hglobal_to_vec_u8(c, h, len)
        c1 == global_free(v.ctx, h)
        c2 == Log(c1, "read_loadu_result", 0)
        cached == read_loadu_result(c1)
        c3 == Log(c2, "decode_from_oem_codepage", 0)
        s == decode_from_oem_codepage(oem_codepage, PathBytes(v.vec))
        reg == register_dll_path(c3, s[1])
    IN  IF cached # None THEN [ctx |-> c2, ret |-> cached[1], vec |-> v.vec]
        ELSE IF s = None THEN [ctx |-> c3, ret |-> BOOL_FALSE, vec |-> v.vec]
        ELSE IF ~reg.ok THEN [ctx |-> reg.ctx, ret |-> BOOL_FALSE, vec |-> v.vec]
        ELSE [ctx |-> load_process(reg.ctx),
              ret |-> IF cb THEN BOOL_TRUE ELSE BOOL_FALSE, vec |-> v.vec]

\* loadu: copy, free, decode as UTF-8, register the path, run the callback,
\* cache its result; a result that cannot be cached is reported as FALSE
loadu(c, h, len, cb) ==
    LET v == hglobal_to_vec_u8(c, h, len)
        c1 == global_free(v.ctx, h)
        c2 == Log(c1, "from_utf8", 0)
        s == from_utf8(PathBytes(v.vec))
        reg == register_dll_path(c2, s[1])
        c3 == load_process(reg.ctx)
        result == IF cb THEN BOOL_TRUE ELSE BOOL_FALSE
        cache == register_loadu_result(c3, result)
    IN  IF s = None THEN [ctx |-> c2, ret |-> BOOL_FALSE, vec |-> v.vec]
        ELSE IF ~reg.ok THEN [ctx |-> reg.ctx, ret |-> BOOL_FALSE, vec |-> v.vec]
        ELSE [ctx |-> cache.ctx,
              ret |-> IF cache.ok THEN result ELSE BOOL_FALSE, vec |-> v.vec]

(***************************************************************************)
(* The host drives one build of the plugin, one call at a time.            *)
(***************************************************************************)
\* GetOEMCP is only called by the negotiating crate
Builds ==
    {[crate |-> "single_entry", load_process |-> l, unload_process |-> u] :
        l \in BOOLEAN, u \in BOOLEAN}
    \cup {[crate |-> "negotiating", load_process |-> TRUE, unload_process |-> TRUE]}

NoCall == [entry |-> "none", h |-> 0, bytes |-> <<>>, len |-> 0, cb |-> FALSE,
           resp |-> <<>>, vec |-> <<>>, ret |-> 0, cell |-> 0, log |-> <<>>,
           ub |-> FALSE]

NoCalls == [n |-> 0, nload |-> 0,
            first |-> [entry |-> "none", ret |-> 0, load_calls |-> 0]]

Init ==
    /\ build \in Builds
    /\ oemcp \in {437, 932}
    /\ build.crate = "single_entry" => oemcp = 932
    /\ DLL_PATH = None
    /\ LOADU_RESULT = None
    /\ live = {}
    /\ mem = [a \in Addr |-> <<>>]
    /\ last = NoCall
    /\ calls = NoCalls
    /\ load_calls = 0
    /\ path_sets = NoSets
    /\ result_sets = NoSets
    /\ origin = [a \in Addr |-> None]
    /\ threads = NoThreads

Invoked(log, op) == \E i \in 1..Len(log) : log[i][1] = op

\* the address of the block the host allocates for its next call
HostAddr == NthFree(Ctx, 0)

\* the call returns: its effects become the process state, the host sees ret
Return(entry, h, bytes, len, cb, resp, r) ==
    /\ live' = r.ctx.live
    /\ mem' = r.ctx.mem
    /\ DLL_PATH' = r.ctx.DLL_PATH
    /\ LOADU_RESULT' = r.ctx.LOADU_RESULT
    /\ load_calls' = r.ctx.load_calls
    /\ path_sets' = r.ctx.path_sets
    /\ result_sets' = r.ctx.result_sets
    /\ last' = [entry |-> entry, h |-> h, bytes |-> bytes, len |-> len,
                cb |-> cb /\ (Invoked(r.ctx.log, "load_process")
                              \/ Invoked(r.ctx.log, "unload_process")),
                resp |-> resp, vec |-> r.vec, ret |-> r.ret,
                cell |-> r.ctx.cell, log |-> r.ctx.log, ub |-> r.ctx.ub]
    /\ calls' = IF entry \in {"load", "loadu"}
                THEN [n |-> calls.n + 1, nload |-> calls.nload + 1,
                      first |-> IF calls.nload = 0
                                THEN [entry |-> entry, ret |-> r.ret,
                                      load_calls |-> r.ctx.load_calls]
                                ELSE calls.first]
                ELSE [calls EXCEPT !.n = @ + 1]
    /\ origin' = [a \in Addr |->
                    IF a \in r.ctx.live /\ a \notin live
                    THEN Some(<<resp, r.ctx.cell>>)
                    ELSE IF a \in r.ctx.live THEN origin[a]
                    ELSE None]
    /\ UNCHANGED <<build, oemcp, threads>>

\* Windows calls DllMain(DLL_PROCESS_ATTACH) before any export can be called,
\* and the host frees the response of a request before its next call
Loaded ==
    /\ build.crate = "single_entry" => calls.n > 0
    /\ live = {}

CallDllMain ==
    /\ build.crate = "single_entry"
    /\ live = {}
    /\ calls.n < MaxCalls
    /\ \E reason \in {DLL_PROCESS_DETACH, DLL_PROCESS_ATTACH, DLL_THREAD_ATTACH,
                      DLL_THREAD_DETACH, 4},
          file_name \in {<<>>, <<67>>, <<67, 58>>, <<55357>>} :
        /\ calls.n = 0 => reason = DLL_PROCESS_ATTACH
        /\ Return("DllMain", 0, file_name, reason, FALSE, <<>>,
                  DllMain(Ctx, reason, file_name))

CallLoad ==
    /\ build.crate = "single_entry"
    /\ Loaded
    /\ calls.n < MaxCalls
    /\ HostAddr # 0
    /\ \E bytes \in HostBytes, cb \in BOOLEAN :
        LET c == HostAlloc(Ctx, HostAddr, bytes)
        IN  Return("load", HostAddr, bytes, Len(bytes), cb, <<>>,
                   IF build.load_process THEN load(c, HostAddr, cb)
                   ELSE load_default(c, HostAddr))

CallLoadLegacy ==
    /\ build.crate = "negotiating"
    /\ Loaded
    /\ calls.n < MaxCalls
    /\ HostAddr # 0
    /\ \E bytes \in HostBytes, cb \in BOOLEAN :
        Return("load", HostAddr, bytes, Len(bytes), cb, <<>>,
               load_legacy(HostAlloc(Ctx, HostAddr, bytes), HostAddr,
                           Len(bytes), cb, oemcp))

CallLoadu ==
    /\ build.crate = "negotiating"
    /\ Loaded
    /\ calls.n < MaxCalls
    /\ HostAddr # 0
    /\ \E bytes \in HostBytes, cb \in BOOLEAN :
        Return("loadu", HostAddr, bytes, Len(bytes), cb, <<>>,
               loadu(HostAlloc(Ctx, HostAddr, bytes), HostAddr, Len(bytes), cb))

\* the request callback's input is opaque to the adapter: the host's request
\* bytes are drawn from the NUL and 'A' bytes only
CallRequest ==
    /\ Loaded
    /\ calls.n < MaxCalls
    /\ HostAddr # 0
    /\ \E bytes \in SeqsUpTo({0, 65}, MaxLen), resp \in Responses,
          pick \in 0..(NumAddr - 1) :
        Return("request", HostAddr, bytes, Len(bytes), FALSE, resp,
               request(HostCell(HostAlloc(Ctx, HostAddr, bytes), Len(bytes)),
                       HostAddr, resp, pick))

CallUnload ==
    /\ Loaded
    /\ calls.n < MaxCalls
    /\ \E cb \in BOOLEAN :
        Return("unload", 0, <<>>, 0, cb, <<>>,
               IF build.unload_process THEN unload(Ctx, cb)
               ELSE unload_default(Ctx))

\* the host frees a response block it was handed
HostFree ==
    \E h \in live :
        /\ live' = live \ {h}
        /\ mem' = [mem EXCEPT ![h] = <<>>]
        /\ origin' = [origin EXCEPT ![h] = None]
        /\ last' = [NoCall EXCEPT !.entry = "host_free", !.h = h]
        /\ UNCHANGED <<build, oemcp, DLL_PATH, LOADU_RESULT, calls, load_calls,
                       path_sets, result_sets, threads>>

Next ==
    \/ CallDllMain
    \/ CallLoad
    \/ CallLoadLegacy
    \/ CallLoadu
    \/ CallRequest
    \/ CallUnload
    \/ HostFree

Spec == Init /\ [][Next]_vars

(***************************************************************************)
(* The bridge functions called on their own, as the crate's tests do:      *)
(* blocks are allocated by the caller or by slice_i8_to_hglobal, copied    *)
(* out by hglobal_to_vec_u8 and freed by global_free.                      *)
(***************************************************************************)
BridgeInit ==
    /\ build = [crate |-> "negotiating", load_process |-> TRUE,
                unload_process |-> TRUE]
    /\ oemcp = 932
    /\ DLL_PATH = None
    /\ LOADU_RESULT = None
    /\ live = {}
    /\ mem = [a \in Addr |-> <<>>]
    /\ last = NoCall
    /\ calls = NoCalls
    /\ load_calls = 0
    /\ path_sets = NoSets
    /\ result_sets = NoSets
    /\ origin = [a \in Addr |-> None]
    /\ threads = NoThreads

BridgeFrame ==
    UNCHANGED <<build, oemcp, DLL_PATH, LOADU_RESULT, load_calls, path_sets,
                result_sets, threads>>

\* GlobalAlloc by the caller, then the block is filled (tests, dll_util.rs:153)
BridgeAlloc ==
    /\ calls.n < MaxBridgeCalls
    /\ \E a \in Addr \ live, bytes \in SeqsUpTo({65, 255}, MaxData) :
        /\ live' = live \cup {a}
        /\ mem' = [mem EXCEPT ![a] = bytes]
        /\ origin' = [origin EXCEPT ![a] = None]
        /\ last' = [NoCall EXCEPT !.entry = "GlobalAlloc", !.h = a,
                                  !.bytes = bytes]
    /\ calls' = [calls EXCEPT !.n = @ + 1]
    /\ BridgeFrame

\* slice_i8_to_hglobal(&mut cell, data): cell holds any value before
BridgeFromOwned ==
    /\ calls.n < MaxBridgeCalls
    /\ live # Addr
    /\ \E data \in SeqsUpTo(I8, MaxData), before \in {0, 10},
          pick \in 0..(NumAddr - 1) :
        LET r == slice_i8_to_hglobal(HostCell(Ctx, before), data, pick)
        IN  /\ live' = r.ctx.live
            /\ mem' = r.ctx.mem
            /\ origin' = [origin EXCEPT ![r.h] = Some(<<data, r.ctx.cell>>)]
            /\ last' = [NoCall EXCEPT !.entry = "slice_i8_to_hglobal",
                                      !.len = before, !.resp = data,
                                      !.ret = r.h, !.cell = r.ctx.cell,
                                      !.log = r.ctx.log, !.ub = r.ctx.ub]
    /\ calls' = [calls EXCEPT !.n = @ + 1]
    /\ BridgeFrame

\* hglobal_to_vec_u8(h, len) on a block of at least len bytes
BridgeToOwned ==
    /\ calls.n < MaxBridgeCalls
    /\ \E h \in live :
        \E len \in 0..Len(mem[h]) :
            LET r == hglobal_to_vec_u8(Ctx, h, len)
            IN  /\ live' = r.ctx.live
                /\ mem' = r.ctx.mem
                /\ last' = [NoCall EXCEPT !.entry = "hglobal_to_vec_u8",
                                          !.h = h, !.len = len,
                                          !.bytes = mem[h], !.vec = r.vec,
                                          !.log = r.ctx.log, !.ub = r.ctx.ub]
    /\ calls' = [calls EXCEPT !.n = @ + 1]
    /\ UNCHANGED origin
    /\ BridgeFrame

BridgeFree ==
    /\ calls.n < MaxBridgeCalls
    /\ \E h \in live :
        LET c == global_free(Ctx, h)
        IN  /\ live' = c.live
            /\ mem' = c.mem
            /\ origin' = [origin EXCEPT ![h] = None]
            /\ last' = [NoCall EXCEPT !.entry = "global_free", !.h = h,
                                      !.log = c.log, !.ub = c.ub]
    /\ calls' = [calls EXCEPT !.n = @ + 1]
    /\ BridgeFrame

BridgeNext ==
    \/ BridgeAlloc
    \/ BridgeFromOwned
    \/ BridgeToOwned
    \/ BridgeFree

SpecBridge == BridgeInit /\ [][BridgeNext]_vars

(***************************************************************************)
(* The registry functions called on their own: they are public, so user    *)
(* code can attempt a set or read a registry at any time.                  *)
(***************************************************************************)
RegistryFrame ==
    UNCHANGED <<build, oemcp, live, mem, origin, load_calls, threads>>

\* the user's call returns: c is the machine state it leaves
RegistryReturn(entry, value, c, ret) ==
    /\ DLL_PATH' = c.DLL_PATH
    /\ LOADU_RESULT' = c.LOADU_RESULT
    /\ path_sets' = c.path_sets
    /\ result_sets' = c.result_sets
    /\ last' = [NoCall EXCEPT !.entry = entry, !.vec = value, !.ret = ret,
                              !.log = c.log]
    /\ calls' = [calls EXCEPT !.n = @ + 1]
    /\ RegistryFrame

RegisterDllPath ==
    /\ calls.n < MaxCalls
    /\ \E path \in {<<>>, <<65>>, <<66>>} :
        LET r == register_dll_path(Ctx, path)
        IN  RegistryReturn("register_dll_path", path, r.ctx,
                           IF r.ok THEN 1 ELSE 0)

RegisterLoaduResult ==
    /\ calls.n < MaxCalls
    /\ \E result \in {BOOL_FALSE, BOOL_TRUE} :
        LET r == register_loadu_result(Ctx, result)
        IN  RegistryReturn("register_loadu_result", <<result>>, r.ctx,
                           IF r.ok THEN 1 ELSE 0)

RegisterDllPathString ==
    /\ calls.n < MaxCalls
    /\ \E file_name \in {<<>>, <<67>>, <<55357>>} :
        RegistryReturn("register_dll_path_string", file_name,
                       register_dll_path_string(Ctx, file_name), 0)

ReadDllPathString ==
    /\ calls.n < MaxCalls
    /\ RegistryReturn("read_dll_path_string", read_dll_path_string(Ctx), Ctx, 0)

ReadLoaduResult ==
    /\ calls.n < MaxCalls
    /\ RegistryReturn("read_loadu_result", read_loadu_result(Ctx), Ctx, 0)

RegistryNext ==
    \/ RegisterDllPath
    \/ RegisterLoaduResult
    \/ RegisterDllPathString
    \/ ReadDllPathString
    \/ ReadLoaduResult

SpecRegistry == BridgeInit /\ [][RegistryNext]_vars

(***************************************************************************)
(* The host calls load and loadu of the negotiating crate while user code  *)
(* uses the public cache functions register_loadu_result and               *)
(* read_loadu_result on its own.                                           *)
(***************************************************************************)
UserNext ==
    \/ CallLoadLegacy
    \/ CallLoadu
    \/ RegisterLoaduResult
    \/ ReadLoaduResult

SpecUser == BridgeInit /\ [][UserNext]_vars

(***************************************************************************)
(* Two threads call register_dll_path, or register_loadu_result, at the    *)
(* same time; a third party reads the registry at any moment.              *)
(***************************************************************************)
ConcurrentInit ==
    /\ build = [crate |-> "negotiating", load_process |-> TRUE,
                unload_process |-> TRUE]
    /\ oemcp = 932
    /\ DLL_PATH = None
    /\ LOADU_RESULT = None
    /\ live = {}
    /\ mem = [a \in Addr |-> <<>>]
    /\ last = NoCall
    /\ calls = NoCalls
    /\ load_calls = 0
    /\ path_sets = NoSets
    /\ result_sets = NoSets
    /\ origin = [a \in Addr |-> None]
    /\ \E reg \in {"DLL_PATH", "LOADU_RESULT"} :
        \E v \in [Threads -> IF reg = "DLL_PATH" THEN {<<65>>, <<66>>}
                              ELSE {BOOL_FALSE, BOOL_TRUE}] :
            threads = [NoThreads EXCEPT !.reg = reg,
                                        !.v = [t \in Threads |-> Some(v[t])]]

ConcurrentFrame ==
    UNCHANGED <<build, oemcp, live, mem, last, calls, load_calls, path_sets,
                result_sets, origin>>

\* the registry's published content follows the cell
Publish(state, slot) ==
    /\ DLL_PATH' = IF threads.reg = "DLL_PATH"
                   THEN OnceLock_get(state, slot) ELSE DLL_PATH
    /\ LOADU_RESULT' = IF threads.reg = "LOADU_RESULT"
                       THEN OnceLock_get(state, slot) ELSE LOADU_RESULT

\* a thread that has not called yet calls set
ThreadCall(t) ==
    /\ threads.pc[t] = "idle"
    /\ threads' = [threads EXCEPT !.pc[t] = "set"]
    /\ UNCHANGED <<DLL_PATH, LOADU_RESULT>>
    /\ ConcurrentFrame

\* set -> get_or_init: a complete cell is left alone
ThreadCheck(t) ==
    /\ threads.pc[t] = "set"
    /\ threads' = [threads EXCEPT
                     !.pc[t] = IF OnceLock_get(threads.state, threads.slot) # None
                               THEN "err" ELSE "once"]
    /\ UNCHANGED <<DLL_PATH, LOADU_RESULT>>
    /\ ConcurrentFrame

\* initialize -> call_once_force
ThreadOnce(t) ==
    /\ threads.pc[t] = "once"
    /\ LET o == Once_call(threads.state)
       IN  /\ ~o.wait
           /\ threads' = [threads EXCEPT
                            !.state = o.state,
                            !.won = IF o.run THEN @ \cup {t} ELSE @,
                            !.pc[t] = IF o.run THEN "write" ELSE "err"]
    /\ UNCHANGED <<DLL_PATH, LOADU_RESULT>>
    /\ ConcurrentFrame

\* the initialiser writes the value into the slot
ThreadWrite(t) ==
    /\ threads.pc[t] = "write"
    /\ threads' = [threads EXCEPT !.slot = threads.v[t], !.pc[t] = "complete"]
    /\ UNCHANGED <<DLL_PATH, LOADU_RESULT>>
    /\ ConcurrentFrame

\* the Once completes: the value becomes visible; set returns Ok(())
ThreadComplete(t) ==
    /\ threads.pc[t] = "complete"
    /\ threads' = [threads EXCEPT !.state = "COMPLETE", !.ok[t] = TRUE,
                                  !.pc[t] = "returned"]
    /\ Publish("COMPLETE", threads.slot)
    /\ ConcurrentFrame

\* set returns Err(value): the value was not taken by the initialiser
ThreadErr(t) ==
    /\ threads.pc[t] = "err"
    /\ threads' = [threads EXCEPT !.ok[t] = FALSE, !.pc[t] = "returned"]
    /\ UNCHANGED <<DLL_PATH, LOADU_RESULT>>
    /\ ConcurrentFrame

\* after its set returned the thread reads the registry
ThreadRead(t) ==
    /\ threads.pc[t] = "returned"
    /\ threads' = [threads EXCEPT
                     !.got[t] = IF threads.reg = "DLL_PATH"
                                THEN read_dll_path_string(Ctx)
                                ELSE read_loadu_result(Ctx),
                     !.pc[t] = "done"]
    /\ UNCHANGED <<DLL_PATH, LOADU_RESULT>>
    /\ ConcurrentFrame

\* another reader reads the registry at any moment
AnyRead ==
    /\ threads' = [threads EXCEPT
                     !.seen = IF threads.reg = "DLL_PATH"
                              THEN read_dll_path_string(Ctx)
                              ELSE read_loadu_result(Ctx)]
    /\ threads'.seen # threads.seen
    /\ UNCHANGED <<DLL_PATH, LOADU_RESULT>>
    /\ ConcurrentFrame

ConcurrentNext ==
    \/ \E t \in Threads : ThreadCall(t)
    \/ \E t \in Threads : ThreadCheck(t)
    \/ \E t \in Threads : ThreadOnce(t)
    \/ \E t \in Threads : ThreadWrite(t)
    \/ \E t \in Threads : ThreadComplete(t)
    \/ \E t \in Threads : ThreadErr(t)
    \/ \E t \in Threads : ThreadRead(t)
    \/ AnyRead

SpecConcurrent == ConcurrentInit /\ [][ConcurrentNext]_vars

(***************************************************************************)
(* Properties.                                                             *)
(***************************************************************************)
\* how many times the call's log frees the block at h
FreeCount(log, h) ==
    Cardinality({i \in 1..Len(log) : log[i] = <<"GlobalFree", h>>})

\* the steps of an adapter that are neither the copy nor the release
Work == {"read_loadu_result", "decode_from_oem_codepage", "from_utf8",
         "register_dll_path", "register_loadu_result", "load_process",
         "request_process", "GlobalAlloc"}

\* block holds exactly the bytes of the i8 sequence data (two's complement)
SameBytes(data, block) ==
    /\ Len(block) = Len(data)
    /\ \A i \in 1..Len(data) :
        block[i] = data[i] \/ block[i] = data[i] + 256

\* the last call was load or loadu of the negotiating crate, or request
Copies == last.entry = "request"
          \/ (build.crate = "negotiating" /\ last.entry \in {"load", "loadu"})

\* the bytes of the last load / loadu call decode in that entry's encoding
LastDecodes ==
    IF last.entry = "loadu" THEN from_utf8(last.vec) # None
    ELSE decode_from_oem_codepage(oemcp, last.vec) # None

\* C1 as stated: when loadu is the first of the load calls and returned X,
\* every later load returns X without running the user load callback, and the
\* callback has run exactly once.
C1_LoadReturnsLoaduResult ==
    (calls.first.entry = "loadu" /\ last.entry = "load") =>
        /\ last.ret = calls.first.ret
        /\ ~Invoked(last.log, "load_process")
        /\ load_calls = 1

\* C1 amended: when loadu is the first of the load calls, was given bytes that
\* are valid UTF-8 (so it ran the user load callback, once) and returned X,
\* every later load returns X without running the callback, and the count
\* stays at 1 in every later state.
C1_IdempotentLoad ==
    (calls.first.entry = "loadu" /\ calls.first.load_calls = 1) =>
        /\ load_calls = 1
        /\ last.entry = "load" =>
            /\ last.ret = calls.first.ret
            /\ ~Invoked(last.log, "load_process")

C1_Witness ==
    /\ calls.first.entry = "loadu"
    /\ calls.first.load_calls = 1
    /\ calls.first.ret = BOOL_TRUE
    /\ last.entry = "load"
    /\ last.bytes = <<255>>
    /\ last.ret = BOOL_TRUE

\* C2 as stated: a host calls load then loadu, or loadu then load, both with
\* bytes that decode: the callback ran exactly once and the second call
\* returned what the first returned.
C2_SecondCall ==
    /\ calls.nload = 2
    /\ calls.first.load_calls = 1
    /\ last.entry \in {"load", "loadu"}
    /\ last.entry # calls.first.entry
    /\ LastDecodes

C2_SecondEqualsFirst ==
    C2_SecondCall => (load_calls = 1 /\ last.ret = calls.first.ret)

\* C2 amended: the callback ran exactly once; after loadu first, load returns
\* what loadu returned; after load first, loadu returns FALSE (the module
\* path is already registered) whatever load returned.
C2_CommitsToFirst ==
    C2_SecondCall =>
        /\ load_calls = 1
        /\ calls.first.entry = "loadu" => last.ret = calls.first.ret
        /\ calls.first.entry = "load" => last.ret = BOOL_FALSE

C2_Witness ==
    /\ C2_SecondCall
    /\ calls.first.entry = "load"
    /\ calls.first.ret = BOOL_TRUE
    /\ last.ret = BOOL_FALSE
    /\ load_calls = 1

\* C3: for DLL_PATH and for LOADU_RESULT, over any sequence of set attempts
\* only the first reports Ok, every later one reports Err, and the stored
\* value is the value of the first attempt.
WriteOnce(cell, sets) ==
    /\ sets.n = 0 => cell = None
    /\ sets.n >= 1 =>
        /\ cell = sets.first
        /\ sets.last[1][2] <=> sets.n = 1

C4_ReleasedOnce ==
    last.entry \in {"load", "loadu", "request"} =>
        /\ FreeCount(last.log, last.h) = 1
        /\ ~last.ub
        /\ last.h \in live => last.h = last.ret
        /\ \A i \in 1..Len(last.log) :
            last.log[i][1] \in {"load_process", "request_process"}
                => last.log[i][2] = 0

C4_Witness ==
    /\ last.entry = "load"
    /\ build.crate = "negotiating"
    /\ Invoked(last.log, "read_loadu_result")
    /\ ~Invoked(last.log, "decode_from_oem_codepage")
    /\ FreeCount(last.log, last.h) = 1

\* the release precedes all work and follows every read of the handle
C5_ReleaseFirst ==
    \E f \in 1..Len(last.log) :
        /\ last.log[f] = <<"GlobalFree", last.h>>
        /\ \A i \in 1..Len(last.log) :
            /\ last.log[i] = <<"read", last.h>> => i < f
            /\ last.log[i][1] \in Work => i > f

C5_CopyThenRelease ==
    /\ Len(last.log) >= 2
    /\ last.log[1] = <<"read", last.h>>
    /\ last.log[2] = <<"GlobalFree", last.h>>

\* C5 as stated: load, loadu and request all copy the handle's bytes first,
\* release it next and only then do any other work.
C5_AllCopyFirst ==
    last.entry \in {"load", "loadu", "request"} =>
        (C5_CopyThenRelease /\ C5_ReleaseFirst)

\* C5 amended: request, and load and loadu of the negotiating crate, copy the
\* bytes first and release next; load of the single-entry crate copies
\* nothing and releases the handle as its first step; in all of them no
\* lookup, decoding, registry write or callback precedes the release and the
\* handle is never read after it.
C5_ReleaseBeforeWork ==
    last.entry \in {"load", "loadu", "request"} =>
        /\ C5_ReleaseFirst
        /\ Copies => C5_CopyThenRelease
        /\ ~Copies => last.log[1] = <<"GlobalFree", last.h>>

C5_Witness ==
    /\ last.entry = "request"
    /\ C5_CopyThenRelease
    /\ Invoked(last.log, "request_process")

\* C6: slice_i8_to_hglobal(B) followed by hglobal_to_vec_u8 on the block it
\* returned, with the length it reported, yields Len(B) + 1 bytes: the bytes
\* of B, then 0.
C6_RoundTrip ==
    (/\ last.entry = "hglobal_to_vec_u8"
     /\ origin[last.h] # None
     /\ last.len = origin[last.h][1][2]) =>
        LET B == origin[last.h][1][1]
        IN  /\ Len(last.vec) = Len(B) + 1
            /\ SameBytes(B, SubSeq(last.vec, 1, Len(B)))
            /\ last.vec[Len(B) + 1] = 0

C6_Witness ==
    /\ last.entry = "hglobal_to_vec_u8"
    /\ origin[last.h] = Some(<<<<0, -1>>, 2>>)
    /\ last.len = 2
    /\ last.vec = <<0, 255, 0>>

\* how many times the call's log runs op
Count(log, op) == Cardinality({i \in 1..Len(log) : log[i][1] = op})

\* request wrote Len(R) to the length cell and returned a live block holding
\* exactly R, allocated after the inbound handle was freed; the callback ran
\* exactly once
C7_Response ==
    /\ last.cell = Len(last.resp)
    /\ last.ret \in live
    /\ SameBytes(last.resp, mem[last.ret])
    /\ Count(last.log, "request_process") = 1
    /\ ~last.ub
    /\ \E f \in 1..Len(last.log) : \E a \in (f + 1)..Len(last.log) :
        /\ last.log[f] = <<"GlobalFree", last.h>>
        /\ last.log[a] = <<"GlobalAlloc", last.ret>>

\* C7 as stated: the response block is exact and its handle is distinct from
\* the released inbound handle.
C7_DistinctHandle ==
    last.entry = "request" => (C7_Response /\ last.ret # last.h)

\* C7 amended: for every inbound buffer and every R, request overwrites the
\* length cell with Len(R) and returns a newly allocated block holding exactly
\* R; the callback runs exactly once.  The block is allocated after the inbound
\* handle is freed, so its address may be the inbound handle's address.
C7_RequestEndToEnd ==
    last.entry = "request" => C7_Response

C7_Witness ==
    /\ last.entry = "request"
    /\ last.resp = <<0>>
    /\ last.bytes = <<65>>
    /\ last.cell = 1
    /\ mem[last.ret] = <<0>>
    /\ last.ret = last.h

\* C8: slice_i8_to_hglobal(D) returns a live block of exactly Len(D) bytes
\* holding D, with no terminator, and sets the length cell to Len(D) whatever
\* the cell held before.
C8_FromOwnedExact ==
    last.entry = "slice_i8_to_hglobal" =>
        /\ last.ret \in live
        /\ SameBytes(last.resp, mem[last.ret])
        /\ last.cell = Len(last.resp)
        /\ ~last.ub

C8_Witness ==
    /\ last.entry = "slice_i8_to_hglobal"
    /\ last.resp = <<-1, 0>>
    /\ last.len = 10
    /\ last.cell = 2
    /\ mem[last.ret] = <<255, 0>>

\* C9: hglobal_to_vec_u8(h, L) returns L + 1 bytes: the first L bytes of the
\* block, then 0; the block keeps its content and is not freed.
C9_ToOwnedTerminated ==
    last.entry = "hglobal_to_vec_u8" =>
        /\ Len(last.vec) = last.len + 1
        /\ \A i \in 1..last.len : last.vec[i] = last.bytes[i]
        /\ last.vec[last.len + 1] = 0
        /\ last.h \in live
        /\ mem[last.h] = last.bytes
        /\ FreeCount(last.log, last.h) = 0
        /\ ~last.ub

C9_Witness ==
    /\ last.entry = "hglobal_to_vec_u8"
    /\ last.bytes = <<255, 65>>
    /\ last.len = 1
    /\ last.vec = <<255, 0>>
    /\ mem[last.h] = <<255, 65>>

\* C10: a loadu call that starts with DLL_PATH and LOADU_RESULT unset and is
\* given valid UTF-8 runs the callback, leaves LOADU_RESULT set to what the
\* callback returned (TRUE or FALSE) and returns it.
C10_LoaduCaches ==
    [][(/\ last'.entry = "loadu"
        /\ calls'.n = calls.n + 1
        /\ DLL_PATH = None
        /\ LOADU_RESULT = None
        /\ from_utf8(last'.vec) # None) =>
            LET X == IF last'.cb THEN BOOL_TRUE ELSE BOOL_FALSE
            IN  /\ Invoked(last'.log, "load_process")
                /\ LOADU_RESULT' = Some(X)
                /\ last'.ret = X]_vars

C10_Witness ==
    /\ last.entry = "loadu"
    /\ calls.n = 1
    /\ Invoked(last.log, "load_process")
    /\ ~last.cb
    /\ LOADU_RESULT = Some(BOOL_FALSE)
    /\ last.ret = BOOL_FALSE

\* position of the first step op in a call's log (0 when there is none)
FirstAt(log, op) ==
    IF Invoked(log, op)
    THEN CHOOSE i \in 1..Len(log) :
            log[i][1] = op /\ \A j \in 1..(i - 1) : log[j][1] # op
    ELSE 0

LastDecodeFailed ==
    \/ /\ Invoked(last.log, "from_utf8")
       /\ from_utf8(PathBytes(last.vec)) = None
    \/ /\ Invoked(last.log, "decode_from_oem_codepage")
       /\ LET encoding == encoding_from_windows_code_page(oemcp)
          IN  \/ encoding = None
              \/ decode(encoding[1], PathBytes(last.vec)) = None

\* the last call tried to register the module path and found it already set
LastRegisterFailed ==
    /\ Invoked(last.log, "register_dll_path")
    /\ ~path_sets.last[1][2]

\* C12: a load or loadu call whose decoding fails, or whose registration of
\* the module path fails because it is already set, returns FALSE and does not
\* invoke the user load callback.
C12_ErrorsTerminal ==
    (last.entry \in {"load", "loadu"}
        /\ (LastDecodeFailed \/ LastRegisterFailed)) =>
        /\ last.ret = BOOL_FALSE
        /\ ~Invoked(last.log, "load_process")

C12_Witness ==
    /\ last.entry = "loadu"
    /\ last.bytes = <<65>>
    /\ LastRegisterFailed
    /\ ~LastDecodeFailed
    /\ last.ret = BOOL_FALSE
    /\ load_calls = 1

\* the registry the two threads set, as a reader sees it
Registry == IF threads.reg = "DLL_PATH" THEN DLL_PATH ELSE LOADU_RESULT

Returned(t) == threads.pc[t] \in {"returned", "done"}

\* C13: two threads set the same registry concurrently: in every
\* interleaving at most one set runs the initialiser, once both have returned
\* exactly one reported Ok and the other Err, the registry holds the winner's
\* value from the moment it holds any, and every read returns nothing (before
\* the winner completed) or the winner's value, and the winner's value once a
\* set has returned.
C13_FirstWriterWins ==
    /\ Cardinality(threads.won) <= 1
    /\ \A t \in Threads : Returned(t) => (threads.ok[t] <=> t \in threads.won)
    /\ (\A t \in Threads : Returned(t)) =>
            Cardinality({t \in Threads : threads.ok[t]}) = 1
    /\ Registry # None =>
            \E w \in Threads : threads.won = {w} /\ Registry = threads.v[w]
    /\ \A t \in Threads : Returned(t) => Registry # None
    /\ \A t \in Threads : threads.pc[t] = "done" => threads.got[t] = Registry
    /\ threads.seen # None => threads.seen = Registry

C13_Witness ==
    /\ threads.reg = "DLL_PATH"
    /\ \A t \in Threads : threads.pc[t] = "done"
    /\ threads.v[1] # threads.v[2]
    /\ threads.ok[2] /\ ~threads.ok[1]
    /\ threads.got[1] = threads.v[2]
    /\ threads.seen = threads.v[2]

\* C14: read_dll_path_string returns None while no registration has been
\* attempted (the first attempt always succeeds), the first registered path
\* in every state after it, and no step of the host (DllMain, load, loadu,
\* request, unload, with their registration attempts) changes a path it
\* returns.
C14_PathQueryStable ==
    [][/\ path_sets.n = 0 => read_dll_path_string(Ctx) = None
       /\ path_sets'.n = 0 => read_dll_path_string(Ctx)' = None
       /\ path_sets'.n >= 1 => read_dll_path_string(Ctx)' = path_sets'.first
       /\ read_dll_path_string(Ctx) # None =>
            read_dll_path_string(Ctx)' = read_dll_path_string(Ctx)]_vars

C14_Witness ==
    /\ last.entry = "DllMain"
    /\ last.len = DLL_PROCESS_ATTACH
    /\ path_sets.n = 2
    /\ path_sets.last[1][1] # path_sets.first[1]
    /\ read_dll_path_string(Ctx) = path_sets.first

\* C15: unload without a callback returns TRUE on every call; unload with a
\* callback runs it exactly once and returns TRUE exactly when it returned
\* true; both free no handle and leave the heap, DLL_PATH and LOADU_RESULT
\* as they were.
C15_UnloadMapping ==
    [][(last'.entry = "unload" /\ calls'.n = calls.n + 1) =>
        /\ build.unload_process =>
            /\ Count(last'.log, "unload_process") = 1
            /\ last'.ret = (IF last'.cb THEN BOOL_TRUE ELSE BOOL_FALSE)
        /\ ~build.unload_process =>
            /\ Count(last'.log, "unload_process") = 0
            /\ last'.ret = BOOL_TRUE
        /\ Count(last'.log, "GlobalFree") = 0
        /\ live' = live /\ mem' = mem
        /\ DLL_PATH' = DLL_PATH /\ LOADU_RESULT' = LOADU_RESULT]_vars

C15_Witness ==
    /\ last.entry = "unload"
    /\ build.unload_process
    /\ Count(last.log, "unload_process") = 1
    /\ ~last.cb
    /\ last.ret = BOOL_FALSE
    /\ DLL_PATH # None

\* C16: LOADU_RESULT is written by loadu only: no DllMain, load, request or
\* unload step changes it or attempts a set, so after load calls alone it is
\* still unset; and a load that runs the callback returns exactly the
\* callback's result.
C16_LegacyNeverCaches ==
    [][/\ result_sets.n = 0 => LOADU_RESULT = None
       /\ (calls'.n = calls.n + 1 /\ last'.entry # "loadu") =>
            /\ LOADU_RESULT' = LOADU_RESULT
            /\ result_sets' = result_sets
            /\ ~Invoked(last'.log, "register_loadu_result")
       /\ (calls'.n = calls.n + 1 /\ last'.entry = "load"
            /\ Invoked(last'.log, "load_process")) =>
            last'.ret = (IF last'.cb THEN BOOL_TRUE ELSE BOOL_FALSE)]_vars

C16_Witness ==
    /\ last.entry = "load"
    /\ calls.nload = 2
    /\ calls.first.entry = "load"
    /\ calls.first.ret = BOOL_TRUE
    /\ Invoked(last.log, "load_process")
    /\ last.ret = BOOL_FALSE
    /\ LOADU_RESULT = None
    /\ load_calls = 2

\* C17: a loadu call that reaches its caching step with LOADU_RESULT already
\* set returns FALSE, also when the callback returned true in that call, and
\* leaves the cached value as it was.
C17_CacheFailureOverrides ==
    [][(/\ calls'.n = calls.n + 1
        /\ last'.entry = "loadu"
        /\ Invoked(last'.log, "register_loadu_result")
        /\ LOADU_RESULT # None) =>
            /\ last'.ret = BOOL_FALSE
            /\ LOADU_RESULT' = LOADU_RESULT]_vars

C17_Witness ==
    /\ last.entry = "loadu"
    /\ Invoked(last.log, "load_process")
    /\ Invoked(last.log, "register_loadu_result")
    /\ last.cb
    /\ last.ret = BOOL_FALSE
    /\ result_sets.n = 2
    /\ result_sets.last = Some(<<BOOL_TRUE, FALSE>>)
    /\ LOADU_RESULT = Some(BOOL_TRUE)

\* C18: DllMain returns TRUE for every reason; on DLL_PROCESS_ATTACH it
\* attempts one registration of the module's file name, which sets the path
\* when none is set and leaves the first one otherwise; on every other
\* reason it leaves the path registry alone; and in the single-entry crate
\* the path is set when load, request or unload runs.
C18_LifecycleDispatch ==
    [][/\ (calls'.n = calls.n + 1 /\ last'.entry = "DllMain") =>
            /\ last'.ret = BOOL_TRUE
            /\ LOADU_RESULT' = LOADU_RESULT
            /\ live' = live
            /\ last'.len # DLL_PROCESS_ATTACH =>
                /\ DLL_PATH' = DLL_PATH
                /\ path_sets' = path_sets
            /\ last'.len = DLL_PROCESS_ATTACH =>
                /\ path_sets'.n = path_sets.n + 1
                /\ DLL_PATH' = IF DLL_PATH = None
                               THEN Some(from_utf16_lossy(last'.bytes))
                               ELSE DLL_PATH
       /\ (calls'.n = calls.n + 1 /\ build.crate = "single_entry"
            /\ last'.entry \in {"load", "request", "unload"}) =>
            DLL_PATH # None]_vars

C18_Witness ==
    /\ last.entry = "DllMain"
    /\ last.len = 4
    /\ last.bytes = <<67>>
    /\ last.ret = BOOL_TRUE
    /\ calls.n = 3
    /\ path_sets.n = 2
    /\ DLL_PATH = Some(<<67, 58>>)

\* the last call reached its decoding step and the path bytes decoded
LastDecoded ==
    /\ Invoked(last.log, "from_utf8")
            \/ Invoked(last.log, "decode_from_oem_codepage")
    /\ ~LastDecodeFailed

\* the path the last call's bytes stand for
LastPath ==
    IF last.entry = "loadu" THEN from_utf8(PathBytes(last.vec))
    ELSE decode(encoding_from_windows_code_page(oemcp)[1], PathBytes(last.vec))

\* C19: a load or loadu call that fails at its decoding step decodes once,
\* returns FALSE and leaves DLL_PATH, LOADU_RESULT and the callback count as
\* they were; and whatever calls failed before, a load or loadu call that
\* starts with both registries unset and is given decodable bytes registers
\* their path, invokes the callback and returns its result.
C19_DecodeFailureKeepsState ==
    [][(calls'.n = calls.n + 1 /\ last'.entry \in {"load", "loadu"}) =>
        /\ LastDecodeFailed' =>
            /\ last'.ret = BOOL_FALSE
            /\ DLL_PATH' = DLL_PATH
            /\ LOADU_RESULT' = LOADU_RESULT
            /\ path_sets' = path_sets
            /\ result_sets' = result_sets
            /\ load_calls' = load_calls
            /\ Count(last'.log, "from_utf8")
                + Count(last'.log, "decode_from_oem_codepage") = 1
        /\ (LastDecoded' /\ DLL_PATH = None /\ LOADU_RESULT = None) =>
            /\ DLL_PATH' = LastPath'
            /\ load_calls' = load_calls + 1
            /\ last'.ret = (IF last'.cb THEN BOOL_TRUE ELSE BOOL_FALSE)]_vars

C19_Witness ==
    /\ calls.nload = 2
    /\ calls.first.entry = "load"
    /\ calls.first.ret = BOOL_FALSE
    /\ calls.first.load_calls = 0
    /\ oemcp = 437
    /\ last.entry = "loadu"
    /\ LastDecoded
    /\ DLL_PATH = Some(<<65>>)
    /\ load_calls = 1
    /\ last.ret = BOOL_TRUE

====
